---- MODULE Spec2Model ----
(***************************************************************************)
(* Model of the document ingestion path (process_pdf_with_retry,           *)
(* save_uploaded_file, upload_document) and of the retrieval-augmented     *)
(* answer path (expand_query, deduplicate_chunks, generate_answer).        *)
(*                                                                         *)
(* A Python string is a sequence of tokens: "" is << >>, concatenation is  *)
(* \o, truthiness is Len > 0, and str.strip() removes leading and trailing *)
(* whitespace tokens.  Python's None is the sentinel None.                 *)
(***************************************************************************)
EXTENDS Integers, Sequences, FiniteSets, TLC

VARIABLES
    op,               \* which public entry point this run exercises
    pc,               \* position inside that entry point
    \* process_pdf_with_retry
    max_retries,      \* parameter max_retries
    attempt,          \* loop variable of `for attempt in range(max_retries)`
    outcomes,         \* history: what converter.convert/export returned per call
    pdf_status,       \* "idle" | "running" | "returned" | "raised"
    pdf_value,        \* the returned value (text or None)
    pdf_exc,          \* message of the exception that left the function
    \* save_uploaded_file / upload_document
    filename,         \* name of the uploaded file
    file_text,        \* text obtained by decoding the stored bytes
    stored,           \* the bytes are written under DOCUMENTS_DIR
    ext,              \* extension after splitext and the ".txt" default
    document_info,    \* the dict save_uploaded_file returned
    save_status,      \* "idle" | "running" | "returned" | "raised"
    indexed,          \* history: contents passed to create_document_embeddings
    http_status,      \* 0 while running, then 200 or 500
    \* generate_answer
    top_k,            \* parameter top_k
    index_results,    \* what the index holds for each query string
    expanded_queries, \* result of expand_query
    qi,               \* position of the search loop in expanded_queries
    all_chunks,       \* merged search results
    unique_chunks,    \* sorted, text-deduplicated chunks
    context,          \* format_context(unique_chunks[:top_k])
    searches,         \* history: queries passed to search_all_documents
    search_failed,    \* history: a search raised
    synth_calls,      \* history: number of synthesis completions requested
    synth_exc,        \* history: message raised by the synthesis completion
    result,           \* the dict generate_answer returned
    \* deduplicate_chunks
    dedup_in,         \* argument of deduplicate_chunks
    dedup_out         \* its result

retrierVars == <<max_retries, attempt, outcomes, pdf_status, pdf_value, pdf_exc>>
uploadVars == <<filename, file_text, stored, ext, document_info, save_status,
                indexed, http_status>>
answerVars == <<top_k, index_results, expanded_queries, qi, all_chunks,
                unique_chunks, context, searches, search_failed, synth_calls,
                synth_exc, result>>
dedupVars == <<dedup_in, dedup_out>>
vars == <<op, pc, retrierVars, uploadVars, answerVars, dedupVars>>

----------------------------------------------------------------------------
(* Bounds of the model *)

\* largest max_retries passed to process_pdf_with_retry
MaxRetriesBound == 3
\* most lines in one query-expansion completion
MaxLines == 2
\* largest top_k passed to generate_answer
MaxTopK == 2
\* longest argument of deduplicate_chunks
MaxDedupLen == 3

(* Program constants *)

\* process_pdf_with_retry(document_path, max_retries: int = 3)
DefaultMaxRetries == 3
\* expand_query(query, num_expansions: int = 3)
NumExpansions == 3

----------------------------------------------------------------------------
(* Strings *)

None == <<"<None>">>
NoExc == << >>
Whitespace == {" ", "\n"}

Min(a, b) == IF a < b THEN a ELSE b

Take(s, n) == SubSeq(s, 1, Min(n, Len(s)))

\* truthiness of an Optional[str]
Truthy(s) == s # None /\ Len(s) > 0

RECURSIVE LStrip(_)
LStrip(s) ==
    IF s = << >> THEN << >>
    ELSE IF Head(s) \in Whitespace THEN LStrip(Tail(s)) ELSE s

RECURSIVE RStrip(_)
RStrip(s) ==
    IF s = << >> THEN << >>
    ELSE IF s[Len(s)] \in Whitespace THEN RStrip(SubSeq(s, 1, Len(s) - 1)) ELSE s

\* str.strip()
Strip(s) == RStrip(LStrip(s))

----------------------------------------------------------------------------
(* process_pdf_with_retry *)

ConversionErrors == {<<"conversion failed">>, <<"corrupt PDF">>}
Texts == {<<"T1">>, <<" ", "T2", "\n">>}
BlankContents == {None, << >>, <<" ">>, <<"\n", " ">>}
NoTextMsg == <<"No text could be extracted after all attempts">>

\* what one converter.convert(...) / export_to_markdown() call can do
ConversionOutcomes ==
    [kind : {"content"}, val : Texts \cup BlankContents]
        \cup [kind : {"raise"}, val : ConversionErrors]

IsEmptyContentNoStrip(content) == content = None \/ Len(content) = 0

\* `not content or len(content.strip()) == 0`
IsEmptyContent(content) ==
    content = None \/ Len(content) = 0 \/ Len(Strip(content)) = 0

AttemptsRemainOffByOne(a, m) == a < m

\* `attempt < max_retries - 1`, in the empty branch and the except branch
AttemptsRemain(a, m) == a < m - 1

\* one iteration of the loop body on conversion outcome o
AttemptStep(a, m, o) ==
    IF o.kind = "content" /\ ~IsEmptyContent(o.val)
    THEN [status |-> "returned", value |-> o.val, exc |-> NoExc, attempt |-> a]
    ELSE IF AttemptsRemain(a, m)
    THEN [status |-> "running", value |-> None, exc |-> NoExc, attempt |-> a + 1]
    ELSE [status |-> "raised", value |-> None,
          exc |-> IF o.kind = "raise" THEN o.val ELSE NoTextMsg,
          attempt |-> a]

PdfAttempt ==
    /\ pc = "pdf"
    /\ pdf_status = "running"
    /\ attempt < max_retries
    /\ \E o \in ConversionOutcomes :
         LET r == AttemptStep(attempt, max_retries, o) IN
         /\ outcomes' = Append(outcomes, o)
         /\ attempt' = r.attempt
         /\ pdf_status' = r.status
         /\ pdf_value' = r.value
         /\ pdf_exc' = r.exc
    /\ UNCHANGED <<op, pc, max_retries, uploadVars, answerVars, dedupVars>>

\* the loop is exhausted without a return or a raise: `return None`
PdfLoopExit ==
    /\ pc = "pdf"
    /\ pdf_status = "running"
    /\ attempt >= max_retries
    /\ pdf_status' = "returned"
    /\ pdf_value' = None
    /\ UNCHANGED <<op, pc, max_retries, attempt, outcomes, pdf_exc,
                   uploadVars, answerVars, dedupVars>>

----------------------------------------------------------------------------
(* save_uploaded_file *)

DotExts == {".txt", ".md", ".csv", ".pdf", ".PDF", ".bin"}
Filenames == {<<"notes", ".txt">>, <<"readme", ".md">>, <<"data", ".csv">>,
              <<"paper", ".pdf">>, <<"SCAN", ".PDF">>, <<"blob", ".bin">>,
              <<"README">>}
FileTexts == {<< >>, <<"hello">>}
TextExts == {".txt", ".md", ".csv"}
PdfErrorPrefix == "Error processing PDF: "
UnsupportedPrefix == "Unsupported file type: "
NoneAfterRetriesMsg == <<"Failed to process PDF after all retries">>
NoDocumentInfo == [filename |-> << >>, content |-> None,
                   metadata |-> [filename |-> << >>, file_type |-> ""]]

\* os.path.splitext(filename)[1]
SplitExt(fn) ==
    IF Len(fn) >= 2 /\ fn[Len(fn)] \in DotExts THEN fn[Len(fn)] ELSE ""

\* `_, ext = os.path.splitext(filename)`, `if not ext: ext = ".txt"`
ExtOf(fn) == IF SplitExt(fn) = "" THEN ".txt" ELSE SplitExt(fn)

\* str.lower() on an extension
Lower(e) == IF e = ".PDF" THEN ".pdf" ELSE e

DocumentInfo(fn, e, content) ==
    [filename |-> fn, content |-> content,
     metadata |-> [filename |-> fn, file_type |-> e]]

SavePdfOutcomeReraise(status, value, exc) ==
    IF status = "raised"
    THEN [status |-> "raised", content |-> None, exc |-> exc]
    ELSE IF value = None
    THEN [status |-> "returned",
          content |-> <<PdfErrorPrefix>> \o NoneAfterRetriesMsg, exc |-> NoExc]
    ELSE [status |-> "returned", content |-> value, exc |-> NoExc]

\* the try/except around process_pdf_with_retry
SavePdfOutcome(status, value, exc) ==
    IF status = "raised"
    THEN [status |-> "returned", content |-> <<PdfErrorPrefix>> \o exc,
          exc |-> NoExc]
    ELSE IF value = None
    THEN [status |-> "returned",
          content |-> <<PdfErrorPrefix>> \o NoneAfterRetriesMsg, exc |-> NoExc]
    ELSE [status |-> "returned", content |-> value, exc |-> NoExc]

\* the document id is drawn, the directory made and the bytes copied
SaveStore ==
    /\ op = "upload"
    /\ pc = "start"
    /\ save_status' = "running"
    /\ ext' = ExtOf(filename)
    /\ stored' = TRUE
    /\ pc' = "classify"
    /\ UNCHANGED <<op, retrierVars, filename, file_text, document_info,
                   indexed, http_status, answerVars, dedupVars>>

\* mkdir or open(..., "wb") raises before anything is stored
SaveStoreFails ==
    /\ op = "upload"
    /\ pc = "start"
    /\ save_status' = "raised"
    /\ ext' = ExtOf(filename)
    /\ pc' = "saved"
    /\ UNCHANGED <<op, retrierVars, filename, file_text, stored, document_info,
                   indexed, http_status, answerVars, dedupVars>>

SaveReadText ==
    /\ pc = "classify"
    /\ Lower(ext) \in TextExts
    /\ document_info' = DocumentInfo(filename, ext, file_text)
    /\ save_status' = "returned"
    /\ pc' = "saved"
    /\ UNCHANGED <<op, retrierVars, filename, file_text, stored, ext,
                   indexed, http_status, answerVars, dedupVars>>

SaveCallPdf ==
    /\ pc = "classify"
    /\ Lower(ext) = ".pdf"
    /\ max_retries' = DefaultMaxRetries
    /\ attempt' = 0
    /\ pdf_status' = "running"
    /\ pc' = "pdf"
    /\ UNCHANGED <<op, outcomes, pdf_value, pdf_exc, uploadVars, answerVars,
                   dedupVars>>

SavePdfFinish ==
    /\ op = "upload"
    /\ pc = "pdf"
    /\ pdf_status \in {"returned", "raised"}
    /\ LET r == SavePdfOutcome(pdf_status, pdf_value, pdf_exc) IN
         /\ save_status' = r.status
         /\ document_info' =
              IF r.status = "returned"
              THEN DocumentInfo(filename, ext, r.content) ELSE document_info
    /\ pc' = "saved"
    /\ UNCHANGED <<op, retrierVars, filename, file_text, stored, ext,
                   indexed, http_status, answerVars, dedupVars>>

SaveUnsupported ==
    /\ pc = "classify"
    /\ Lower(ext) \notin TextExts \cup {".pdf"}
    /\ document_info' = DocumentInfo(filename, ext, <<UnsupportedPrefix, ext>>)
    /\ save_status' = "returned"
    /\ pc' = "saved"
    /\ UNCHANGED <<op, retrierVars, filename, file_text, stored, ext,
                   indexed, http_status, answerVars, dedupVars>>

----------------------------------------------------------------------------
(* upload_document *)

\* `if content:` holds and create_document_embeddings returns
UploadIndexOk ==
    /\ pc = "saved"
    /\ save_status = "returned"
    /\ Truthy(document_info.content)
    /\ indexed' = Append(indexed, document_info.content)
    /\ http_status' = 200
    /\ pc' = "responded"
    /\ UNCHANGED <<op, retrierVars, filename, file_text, stored, ext,
                   document_info, save_status, answerVars, dedupVars>>

\* `if content:` holds and create_document_embeddings raises
UploadIndexRaises ==
    /\ pc = "saved"
    /\ save_status = "returned"
    /\ Truthy(document_info.content)
    /\ indexed' = Append(indexed, document_info.content)
    /\ http_status' = 500
    /\ pc' = "responded"
    /\ UNCHANGED <<op, retrierVars, filename, file_text, stored, ext,
                   document_info, save_status, answerVars, dedupVars>>

\* `if content:` fails: nothing is indexed
UploadSkipIndex ==
    /\ pc = "saved"
    /\ save_status = "returned"
    /\ ~Truthy(document_info.content)
    /\ http_status' = 200
    /\ pc' = "responded"
    /\ UNCHANGED <<op, retrierVars, filename, file_text, stored, ext,
                   document_info, save_status, indexed, answerVars, dedupVars>>

\* save_uploaded_file raised: HTTPException(500)
UploadSaveRaised ==
    /\ pc = "saved"
    /\ save_status = "raised"
    /\ http_status' = 500
    /\ pc' = "responded"
    /\ UNCHANGED <<op, retrierVars, filename, file_text, stored, ext,
                   document_info, save_status, indexed, answerVars, dedupVars>>

----------------------------------------------------------------------------
(* expand_query *)

Query == <<"q">>
ExpQueries == {<<"e1">>, <<"e2">>}
AllQueries == {Query} \cup ExpQueries
NumberTokens == {"1.", "2.", "3."}
QuoteTokens == {"\"", "'"}

\* lines a completion can hold: blank, numbered, numbered and quoted, quoted
RawLines == {<<" ">>,
             <<"1.", " ", "e1">>,
             <<"2.", " ", "'", "e2", "'">>,
             <<"\"", "e1", "\"">>}

RECURSIVE SeqsUpTo(_, _)
SeqsUpTo(S, n) ==
    IF n = 0 THEN {<< >>}
    ELSE LET shorter == SeqsUpTo(S, n - 1) IN
         shorter \cup {Append(s, x) : s \in shorter, x \in S}

\* completions of the expansion prompt, as lists of lines
Responses == SeqsUpTo(RawLines, MaxLines)

\* remove "1." numbering
StripNumbering(line) ==
    IF line # << >> /\ Head(line) \in NumberTokens THEN Strip(Tail(line)) ELSE line

\* remove one layer of surrounding quotes of kind q
StripQuote(line, q) ==
    IF line # << >> /\ Head(line) = q /\ line[Len(line)] = q
    THEN SubSeq(line, 2, Len(line) - 1) ELSE line

CleanLine(line) == StripQuote(StripQuote(StripNumbering(Strip(line)), "\""), "'")

RECURSIVE ParseExpansions(_)
ParseExpansions(lines) ==
    IF lines = << >> THEN << >>
    ELSE IF Strip(Head(lines)) = << >> THEN ParseExpansions(Tail(lines))
    ELSE <<CleanLine(Head(lines))>> \o ParseExpansions(Tail(lines))

\* expand_query on a completion that arrived
ExpandQuery(response) == Take(ParseExpansions(response), NumExpansions)

----------------------------------------------------------------------------
(* chunks, search, ranking *)

NoChunkId == ""
K1 == [chunk_id |-> "id1", text |-> <<"a">>, score |-> 1]
K2 == [chunk_id |-> "id2", text |-> <<"b">>, score |-> 1]
K3 == [chunk_id |-> "id3", text |-> <<"a">>, score |-> 2]
K4 == [chunk_id |-> NoChunkId, text |-> <<"c">>, score |-> 3]
SearchChunks == {K1, K2, K3}
DedupChunks == {K1, K2, K3, K4}

IsInjective(s) == \A i, j \in 1..Len(s) : s[i] = s[j] => i = j

\* result lists the index can hold for a query: distinct chunks
ResultLists == {s \in SeqsUpTo(SearchChunks, MaxTopK) : IsInjective(s)}

\* search_all_documents(q, top_k): at most top_k chunks held for q
SearchAllDocuments(q, k) == Take(index_results[q], k)

\* insert c behind every element whose score is <= c.score
RECURSIVE InsertByScore(_, _)
InsertByScore(sorted, c) ==
    IF sorted = << >> THEN <<c>>
    ELSE IF Head(sorted).score <= c.score
    THEN <<Head(sorted)>> \o InsertByScore(Tail(sorted), c)
    ELSE <<c>> \o sorted

RECURSIVE SortInto(_, _)
SortInto(sorted, rest) ==
    IF rest = << >> THEN sorted
    ELSE SortInto(InsertByScore(sorted, Head(rest)), Tail(rest))

SortByScoreOmitted(chunks) == chunks

\* sorted(all_chunks, key=lambda x: x["score"]): ascending and stable
SortByScore(chunks) == SortInto(<< >>, chunks)

\* the seen_texts loop of generate_answer
RECURSIVE DedupByText(_, _)
DedupByText(chunks, seen_texts) ==
    IF chunks = << >> THEN << >>
    ELSE IF Head(chunks).text \in seen_texts
    THEN DedupByText(Tail(chunks), seen_texts)
    ELSE <<Head(chunks)>>
             \o DedupByText(Tail(chunks), seen_texts \cup {Head(chunks).text})

\* deduplicate_chunks: a dict keyed by chunk_id, in insertion order
RECURSIVE DeduplicateFrom(_, _)
DeduplicateFrom(chunks, seen_ids) ==
    IF chunks = << >> THEN << >>
    ELSE LET chunk_id == Head(chunks).chunk_id IN
         IF chunk_id # NoChunkId /\ chunk_id \notin seen_ids
         THEN <<Head(chunks)>>
                  \o DeduplicateFrom(Tail(chunks), seen_ids \cup {chunk_id})
         ELSE DeduplicateFrom(Tail(chunks), seen_ids)

deduplicate_chunks(chunks) == DeduplicateFrom(chunks, {})

\* format_context
RECURSIVE FormatFrom(_, _)
FormatFrom(chunks, i) ==
    IF chunks = << >> THEN << >>
    ELSE <<"[Chunk ", ToString(i), "]\n">> \o Head(chunks).text \o <<"\n">>
             \o (IF Tail(chunks) = << >> THEN << >> ELSE <<"\n">>)
             \o FormatFrom(Tail(chunks), i + 1)

FormatContext(chunks) == FormatFrom(chunks, 1)

----------------------------------------------------------------------------
(* generate_answer *)

Apology ==
    <<"I apologize, but I encountered an error while processing your request.">>
ModelAnswers == {<<"A1">>}
ModelErrors == {<<"rate limit exceeded">>, <<"connection reset">>}
SearchErrors == {<<"index unavailable">>}
NoResult == [answer |-> << >>, chunks |-> << >>, expanded_queries |-> << >>,
             success |-> FALSE]

ErrorResultLeak(e) ==
    [answer |-> <<"Error: ">> \o e, chunks |-> << >>,
     expanded_queries |-> << >>, success |-> FALSE]

\* the dict returned by the `except Exception as e` branch
ErrorResult(e) ==
    [answer |-> Apology, chunks |-> << >>, expanded_queries |-> << >>,
     success |-> FALSE]

\* expand_query returns the parsed completion
ExpandOk ==
    /\ op = "answer"
    /\ pc = "start"
    /\ \E response \in Responses : expanded_queries' = ExpandQuery(response)
    /\ qi' = 1
    /\ pc' = "search"
    /\ UNCHANGED <<op, retrierVars, uploadVars, top_k, index_results,
                   all_chunks, unique_chunks, context, searches, search_failed,
                   synth_calls, synth_exc, result, dedupVars>>

\* the expansion completion raises: expand_query returns []
ExpandFails ==
    /\ op = "answer"
    /\ pc = "start"
    /\ expanded_queries' = << >>
    /\ qi' = 1
    /\ pc' = "search"
    /\ UNCHANGED <<op, retrierVars, uploadVars, top_k, index_results,
                   all_chunks, unique_chunks, context, searches, search_failed,
                   synth_calls, synth_exc, result, dedupVars>>

\* one iteration of `for expanded_query in expanded_queries`
SearchOk ==
    /\ pc = "search"
    /\ qi <= Len(expanded_queries)
    /\ all_chunks' = all_chunks \o SearchAllDocuments(expanded_queries[qi], top_k)
    /\ searches' = Append(searches, expanded_queries[qi])
    /\ qi' = qi + 1
    /\ UNCHANGED <<op, pc, retrierVars, uploadVars, top_k, index_results,
                   expanded_queries, unique_chunks, context, search_failed,
                   synth_calls, synth_exc, result, dedupVars>>

\* search_all_documents raises: control leaves the loop for the except branch
SearchFails ==
    /\ pc = "search"
    /\ qi <= Len(expanded_queries)
    /\ searches' = Append(searches, expanded_queries[qi])
    /\ search_failed' = TRUE
    /\ \E e \in SearchErrors : result' = ErrorResult(e)
    /\ pc' = "done"
    /\ UNCHANGED <<op, retrierVars, uploadVars, top_k, index_results,
                   expanded_queries, qi, all_chunks, unique_chunks, context,
                   synth_calls, synth_exc, dedupVars>>

\* sort, deduplicate by text, format the first top_k as context
Aggregate ==
    /\ pc = "search"
    /\ qi > Len(expanded_queries)
    /\ unique_chunks' = DedupByText(SortByScore(all_chunks), {})
    /\ context' = FormatContext(Take(DedupByText(SortByScore(all_chunks), {}), top_k))
    /\ pc' = "synth"
    /\ UNCHANGED <<op, retrierVars, uploadVars, top_k, index_results,
                   expanded_queries, qi, all_chunks, searches, search_failed,
                   synth_calls, synth_exc, result, dedupVars>>

\* the synthesis completion returns
SynthOk ==
    /\ pc = "synth"
    /\ synth_calls' = synth_calls + 1
    /\ \E a \in ModelAnswers :
         result' = [answer |-> a, chunks |-> Take(unique_chunks, top_k),
                    expanded_queries |-> expanded_queries, success |-> TRUE]
    /\ pc' = "done"
    /\ UNCHANGED <<op, retrierVars, uploadVars, top_k, index_results,
                   expanded_queries, qi, all_chunks, unique_chunks, context,
                   searches, search_failed, synth_exc, dedupVars>>

\* the synthesis completion raises
SynthFails ==
    /\ pc = "synth"
    /\ synth_calls' = synth_calls + 1
    /\ \E e \in ModelErrors :
         /\ synth_exc' = e
         /\ result' = ErrorResult(e)
    /\ pc' = "done"
    /\ UNCHANGED <<op, retrierVars, uploadVars, top_k, index_results,
                   expanded_queries, qi, all_chunks, unique_chunks, context,
                   searches, search_failed, dedupVars>>

----------------------------------------------------------------------------
(* deduplicate_chunks applied to an argument *)

DedupApply ==
    /\ op = "dedup"
    /\ pc = "start"
    /\ dedup_out' = deduplicate_chunks(dedup_in)
    /\ pc' = "done"
    /\ UNCHANGED <<op, retrierVars, uploadVars, answerVars, dedup_in>>

----------------------------------------------------------------------------
(* Initial states: one call of one entry point, with its arguments *)

RetrierIdle ==
    /\ max_retries = 0 /\ attempt = 0 /\ outcomes = << >>
    /\ pdf_status = "idle" /\ pdf_value = None /\ pdf_exc = NoExc

UploadIdle ==
    /\ filename = << >> /\ file_text = << >> /\ stored = FALSE /\ ext = ""
    /\ document_info = NoDocumentInfo /\ save_status = "idle"
    /\ indexed = << >> /\ http_status = 0

AnswerIdle ==
    /\ top_k = 0 /\ index_results = [q \in AllQueries |-> << >>]
    /\ expanded_queries = << >> /\ qi = 1 /\ all_chunks = << >>
    /\ unique_chunks = << >> /\ context = << >> /\ searches = << >>
    /\ search_failed = FALSE /\ synth_calls = 0 /\ synth_exc = NoExc
    /\ result = NoResult

DedupIdle == dedup_in = << >> /\ dedup_out = << >>

\* process_pdf_with_retry(path, max_retries)
InitProcessPdf ==
    /\ op = "process_pdf" /\ pc = "pdf"
    /\ max_retries \in -1..MaxRetriesBound
    /\ attempt = 0 /\ outcomes = << >>
    /\ pdf_status = "running" /\ pdf_value = None /\ pdf_exc = NoExc
    /\ UploadIdle /\ AnswerIdle /\ DedupIdle

\* upload_document(file)
InitUpload ==
    /\ op = "upload" /\ pc = "start"
    /\ RetrierIdle
    /\ filename \in Filenames /\ file_text \in FileTexts
    /\ stored = FALSE /\ ext = "" /\ document_info = NoDocumentInfo
    /\ save_status = "idle" /\ indexed = << >> /\ http_status = 0
    /\ AnswerIdle /\ DedupIdle

\* generate_answer(query, top_k=...); the query itself is never searched, so
\* the list the index holds for it is either empty or one chunk
InitAnswer ==
    /\ op = "answer" /\ pc = "start"
    /\ RetrierIdle /\ UploadIdle
    /\ top_k \in 1..MaxTopK
    /\ index_results \in {f \in [AllQueries -> ResultLists] : Len(f[Query]) <= 1
                            /\ (f[Query] # << >> => f[Query] = <<K1>>)}
    /\ expanded_queries = << >> /\ qi = 1 /\ all_chunks = << >>
    /\ unique_chunks = << >> /\ context = << >> /\ searches = << >>
    /\ search_failed = FALSE /\ synth_calls = 0 /\ synth_exc = NoExc
    /\ result = NoResult
    /\ DedupIdle

\* deduplicate_chunks(chunks)
InitDedup ==
    /\ op = "dedup" /\ pc = "start"
    /\ RetrierIdle /\ UploadIdle /\ AnswerIdle
    /\ dedup_in \in SeqsUpTo(DedupChunks, MaxDedupLen)
    /\ dedup_out = << >>

Init == InitProcessPdf \/ InitUpload \/ InitAnswer \/ InitDedup

Next ==
    \/ PdfAttempt
    \/ PdfLoopExit
    \/ SaveStore
    \/ SaveStoreFails
    \/ SaveReadText
    \/ SaveCallPdf
    \/ SavePdfFinish
    \/ SaveUnsupported
    \/ UploadIndexOk
    \/ UploadIndexRaises
    \/ UploadSkipIndex
    \/ UploadSaveRaised
    \/ ExpandOk
    \/ ExpandFails
    \/ SearchOk
    \/ SearchFails
    \/ Aggregate
    \/ SynthOk
    \/ SynthFails
    \/ DedupApply

Spec == Init /\ [][Next]_vars

----------------------------------------------------------------------------
(* Properties *)

\* a conversion outcome that is text with at least one non-whitespace token
NonEmptyText(o) ==
    /\ o.kind = "content"
    /\ o.val # None
    /\ \E i \in 1..Len(o.val) : o.val[i] \notin Whitespace

RetrierDone == pdf_status \in {"returned", "raised"}

\* C1: if the conversion fails or is empty on attempts 1..k-1 and yields
\* non-empty text on attempt k <= max_retries, process_pdf_with_retry returns
\* exactly that text after exactly k conversions and converts no more; and a
\* text it returns is the non-empty text of its last conversion.
C1_ReturnsFirstNonEmptyText ==
    /\ \A k \in 1..Len(outcomes) :
         (NonEmptyText(outcomes[k]) /\ \A j \in 1..(k - 1) : ~NonEmptyText(outcomes[j]))
           => /\ Len(outcomes) = k
              /\ k <= max_retries
              /\ pdf_status = "returned"
              /\ pdf_value = outcomes[k].val
    /\ (pdf_status = "returned" /\ pdf_value # None)
         => /\ Len(outcomes) >= 1
            /\ NonEmptyText(outcomes[Len(outcomes)])
            /\ pdf_value = outcomes[Len(outcomes)].val

\* C1 witness: two failed attempts (one raised, one whitespace) and then text
C1_Witness ==
    /\ pdf_status = "returned"
    /\ Len(outcomes) = 3
    /\ outcomes[1].kind = "raise"
    /\ outcomes[2] = [kind |-> "content", val |-> <<" ">>]
    /\ pdf_value = <<" ", "T2", "\n">>

\* C2 as claimed: for every max_retries, when no attempt yields non-empty
\* text the call raises, after exactly max_retries attempts, and returns
\* nothing.
C2_AllFailRaises ==
    (RetrierDone /\ \A i \in 1..Len(outcomes) : ~NonEmptyText(outcomes[i]))
      => pdf_status = "raised" /\ Len(outcomes) = max_retries

\* C2 amended: for max_retries >= 1, when no attempt yields non-empty text
\* the call raises after exactly max_retries attempts; for max_retries <= 0
\* no attempt is made and None is returned.
C2_AllFailRaisesWhenPositive ==
    (RetrierDone /\ \A i \in 1..Len(outcomes) : ~NonEmptyText(outcomes[i]))
      => IF max_retries >= 1
         THEN /\ pdf_status = "raised"
              /\ pdf_exc # NoExc
              /\ Len(outcomes) = max_retries
         ELSE /\ pdf_status = "returned"
              /\ pdf_value = None
              /\ outcomes = << >>

\* C2 witness: three attempts, none with text, the last one empty: raised
C2_Witness ==
    /\ pdf_status = "raised"
    /\ max_retries = 3
    /\ Len(outcomes) = 3
    /\ \A i \in 1..3 : ~NonEmptyText(outcomes[i])
    /\ outcomes[3].kind = "content"
    /\ pdf_exc = NoTextMsg

\* C3: when the synthesis completion raises, generate_answer returns
\* success = FALSE with the fixed apology; every result with success = FALSE
\* carries the apology and no text of an exception.
C3_FailureAnswerIsApology ==
    (op = "answer" /\ pc = "done")
      => /\ synth_exc # NoExc => ~result.success
         /\ ~result.success
              => /\ result.answer = Apology
                 /\ \A e \in ModelErrors \cup SearchErrors :
                      \A i \in 1..Len(result.answer) :
                        \A j \in 1..Len(e) : result.answer[i] # e[j]

\* C3 witness: the synthesis completion raised after chunks were retrieved
C3_Witness ==
    /\ op = "answer" /\ pc = "done"
    /\ synth_exc \in ModelErrors
    /\ synth_calls = 1
    /\ unique_chunks # << >>
    /\ ~result.success

NoRelevantInformation == <<"no relevant information found">>

\* C4 as claimed: when every query (the original and each expansion) finds
\* nothing, generate_answer returns success = FALSE with the fixed "no
\* relevant information found" answer and never calls the synthesis model.
C4_ZeroEvidenceShortCircuits ==
    ( /\ op = "answer" /\ pc = "done" /\ ~search_failed
      /\ \A q \in AllQueries : SearchAllDocuments(q, top_k) = << >> )
      => /\ ~result.success
         /\ result.answer = NoRelevantInformation
         /\ synth_calls = 0

RECURSIVE Count(_, _)
Count(s, x) ==
    IF s = << >> THEN 0
    ELSE (IF Head(s) = x THEN 1 ELSE 0) + Count(Tail(s), x)

\* C5 as claimed: once the search loop has ended without a failure, exactly
\* one search was issued for the original query and one for each element of
\* expanded_queries.
C5_OneSearchPerQuery ==
    (op = "answer" /\ pc \in {"synth", "done"} /\ ~search_failed)
      => \A q \in AllQueries :
           Count(searches, q) = Count(<<Query>> \o expanded_queries, q)

\* C6 as claimed: when a search raises after others returned chunks, the
\* chunks already retrieved are still ranked and returned.
C6_PartialFailureIsolated ==
    (op = "answer" /\ pc = "done" /\ search_failed)
      => result.chunks = Take(DedupByText(SortByScore(all_chunks), {}), top_k)

\* content-identity key: chunk_id when present, text otherwise
KeyOf(c) ==
    IF c.chunk_id # NoChunkId THEN <<"chunk_id", c.chunk_id>> ELSE <<"text">> \o c.text

RECURSIVE FirstSeenFrom(_, _)
FirstSeenFrom(chunks, seen) ==
    IF chunks = << >> THEN << >>
    ELSE IF KeyOf(Head(chunks)) \in seen THEN FirstSeenFrom(Tail(chunks), seen)
    ELSE <<Head(chunks)>>
             \o FirstSeenFrom(Tail(chunks), seen \cup {KeyOf(Head(chunks))})

\* C7 as claimed: deduplication keeps exactly the first chunk of every
\* content-identity key, in order of first appearance, both in
\* deduplicate_chunks and in the deduplication step of generate_answer.
C7_FirstSeenWinsOnKey ==
    /\ (op = "dedup" /\ pc = "done")
         => dedup_out = FirstSeenFrom(dedup_in, {})
    /\ (op = "answer" /\ pc = "synth")
         => unique_chunks = FirstSeenFrom(SortByScore(all_chunks), {})

\* the permutations of 1..n
MergeOrders(n) == {f \in [1..n -> 1..n] : \A i, j \in 1..n : f[i] = f[j] => i = j}

\* the per-query result lists of this run, merged in the order f
RECURSIVE MergedIn(_, _)
MergedIn(f, i) ==
    IF i > Len(expanded_queries) THEN << >>
    ELSE SearchAllDocuments(expanded_queries[f[i]], top_k) \o MergedIn(f, i + 1)

\* rank, deduplicate, truncate
Aggregated(chunks) == Take(DedupByText(SortByScore(chunks), {}), top_k)

AggregationDone == op = "answer" /\ pc = "synth"

\* C8 as claimed: the ranked, deduplicated, truncated sequence is the same
\* for every order in which the per-query result lists are merged.
C8_MergeOrderIndependent ==
    AggregationDone
      => \A f \in MergeOrders(Len(expanded_queries)) :
           Take(unique_chunks, top_k) = Aggregated(MergedIn(f, 1))

\* no two different chunks of the merged stream have the same score
NoScoreTies ==
    \A i, j \in 1..Len(all_chunks) :
      all_chunks[i].score = all_chunks[j].score => all_chunks[i] = all_chunks[j]

FirstIndex(s, x) == CHOOSE i \in 1..Len(s) : s[i] = x /\ \A j \in 1..(i - 1) : s[j] # x

\* C8 amended: the ranked sequence ascends by score with ties broken by
\* first appearance in the merged stream; it is the same for every merge
\* order whenever no two different chunks of the stream share a score.
C8_MergeOrderIndependentWithoutTies ==
    AggregationDone
      => /\ \A i, j \in 1..Len(unique_chunks) :
              i < j => /\ unique_chunks[i].score <= unique_chunks[j].score
                       /\ unique_chunks[i].score = unique_chunks[j].score
                            => FirstIndex(all_chunks, unique_chunks[i])
                                 < FirstIndex(all_chunks, unique_chunks[j])
         /\ NoScoreTies
              => \A f \in MergeOrders(Len(expanded_queries)) :
                   Take(unique_chunks, top_k) = Aggregated(MergedIn(f, 1))

\* C8 witness: two different queries whose lists arrive with the higher
\* score first, no ties, and two chunks ranked
C8_Witness ==
    /\ AggregationDone
    /\ expanded_queries = <<<<"e2">>, <<"e1">>>>
    /\ NoScoreTies
    /\ all_chunks = <<K3, K2>>
    /\ Take(unique_chunks, top_k) = <<K2, K3>>

SaveDone == op = "upload" /\ stored /\ pc \in {"saved", "responded"}

\* C9: once the bytes are stored save_uploaded_file returns a record; when
\* PDF extraction raised, the content is the error prefix followed by the
\* failure reason; for an extension outside .txt/.md/.csv/.pdf the content is
\* the unsupported-file-type marker.
C9_SaveNeverFailsOnExtraction ==
    SaveDone
      => /\ save_status = "returned"
         /\ document_info.filename = filename
         /\ (Lower(ext) = ".pdf" /\ pdf_status = "raised")
              => /\ pdf_exc # NoExc
                 /\ document_info.content = <<PdfErrorPrefix>> \o pdf_exc
         /\ Lower(ext) \notin {".txt", ".md", ".csv", ".pdf"}
              => document_info.content = <<UnsupportedPrefix, ext>>

\* C9 witness: a PDF none of whose three conversions yields text
C9_Witness ==
    /\ SaveDone
    /\ ext = ".pdf"
    /\ pdf_status = "raised"
    /\ Len(outcomes) = DefaultMaxRetries
    /\ document_info.content = <<PdfErrorPrefix>> \o NoTextMsg

IsErrorMarker(content) ==
    content # << >> /\ Head(content) \in {PdfErrorPrefix, UnsupportedPrefix}

\* C10 as claimed: create_document_embeddings is never called with the
\* PDF-extraction-failure string or the unsupported-file-type marker.
C10_ErrorMarkerNeverIndexed ==
    \A i \in 1..Len(indexed) : ~IsErrorMarker(indexed[i])

====
